---- MODULE Spec2Model ----
(***************************************************************************)
(* Model of the MCP gateway of wwardha/hr-resumes:                         *)
(*   - MCPAuthASGI  (src/mcp_server/main.py, src/mcp_server/auth_asgi.py)  *)
(*     the bearer-credential gate in front of every /mcp* route;           *)
(*   - the inner FastAPI application that mounts MCPMux at /mcp;           *)
(*   - MCPMux (src/mcp_server/main.py), which normalises the path and      *)
(*     dispatches to the streamable-HTTP app or to the SSE app.            *)
(* Strings are sequences of one-character strings, so that prefix tests,   *)
(* slicing, strip, split and lower-casing are computed as Python does.     *)
(***************************************************************************)
EXTENDS Naturals, Sequences, FiniteSets

VARIABLES
    entry,                    \* which ASGI callable the connection is handed to
    env,                      \* the process environment read at construction
    prefix,                   \* MCPAuthASGI.prefix
    token,                    \* MCPAuthASGI.token
    allow_cf_access,          \* MCPAuthASGI.allow_cf_access
    HTTP_NEEDS_INNER_PREFIX,  \* the cached root-prefix probe
    mcp_available,            \* the MCP transports were built (else the stub)
    scope,                    \* the connection scope as received by the entry
    cur,                      \* the scope handed to the layer that runs next
    pc,                       \* the layer that runs next
    decision,                 \* the branch the auth wrapper took
    local,                    \* the local path the mux computed (and logged)
    sent,                     \* messages the gateway itself sent
    calls,                    \* applications invoked, in order, with their scope
    log,                      \* records written to the log, in order
    raised,                   \* the exception leaving the entry, if any
    peer,                     \* a second connection handled concurrently
    ADMIN_TOKEN,              \* service.py: the admin token read at import
    req,                      \* service.py: the request a handler was given
    status_code,              \* service.py: the status of the handler's response
    executed,                 \* service.py: command lines run through the shell
    written                   \* service.py: paths of the files written

vars == <<entry, env, prefix, token, allow_cf_access, HTTP_NEEDS_INNER_PREFIX,
          mcp_available, scope, cur, pc, decision, local, sent, calls,
          log, raised, peer, ADMIN_TOKEN, req, status_code,
          executed, written>>

service == <<ADMIN_TOKEN, req, status_code, executed, written>>

config == <<env, prefix, token, allow_cf_access, HTTP_NEEDS_INNER_PREFIX, mcp_available>>

(***************************************************************************)
(* Bounds of the model.                                                    *)
(***************************************************************************)
\* Number of path pieces concatenated into a raw path handed to the mux.
MaxPieces == 3

(***************************************************************************)
(* Python values and string operations.                                    *)
(***************************************************************************)
\* Python's None; no string is equal to it (strings hold single characters).
None == <<"None">>

\* `x or d` for a string (or None) x.
OrDefault(x, d) == IF x = None \/ x = <<>> THEN d ELSE x

\* `not x` for a string (or None) x.
Falsy(x) == x = None \/ x = <<>>

\* s.startswith(p)
StartsWith(s, p) == Len(p) <= Len(s) /\ SubSeq(s, 1, Len(p)) = p

\* s[n:]
Drop(s, n) == SubSeq(s, n + 1, Len(s))

Slash == <<"/">>
S_mcp == <<"/", "m", "c", "p">>
S_sse == <<"/", "s", "s", "e">>
S_messages == <<"/", "m", "e", "s", "s", "a", "g", "e", "s">>
S_health == <<"/", "h", "e", "a", "l", "t", "h">>
S_outer == <<"/", "o", "u", "t", "e", "r">>
S_api == <<"/", "a", "p", "i">>
S_bearer == <<"b", "e", "a", "r", "e", "r">>
S_Bearer == <<"B", "e", "a", "r", "e", "r">>
S_dev_token == <<"d", "e", "v", "-", "t", "o", "k", "e", "n">>
S_auth_eq == <<"a", "u", "t", "h", "=">>

\* Characters str.strip() and str.split(None) treat as white space.
Whitespace == {" ", "\t"}

RECURSIVE LStrip(_)
LStrip(s) == IF s # <<>> /\ Head(s) \in Whitespace THEN LStrip(Tail(s)) ELSE s

RECURSIVE RStrip(_)
RStrip(s) ==
    IF s # <<>> /\ s[Len(s)] \in Whitespace THEN RStrip(SubSeq(s, 1, Len(s) - 1)) ELSE s

\* s.strip()
Strip(s) == RStrip(LStrip(s))

RECURSIVE RStripChar(_, _)
\* s.rstrip(c)
RStripChar(s, c) ==
    IF s # <<>> /\ s[Len(s)] = c THEN RStripChar(SubSeq(s, 1, Len(s) - 1), c) ELSE s

RECURSIVE LStripChar(_, _)
LStripChar(s, c) == IF s # <<>> /\ Head(s) = c THEN LStripChar(Tail(s), c) ELSE s

\* s.strip(c)
StripChar(s, c) == RStripChar(LStripChar(s, c), c)

\* c.lower(), on the letters the model's inputs use in upper case.
LowerChar(c) ==
    CASE c = "B" -> "b" [] c = "E" -> "e" [] c = "A" -> "a" [] c = "R" -> "r"
      [] c = "T" -> "t" [] c = "U" -> "u" [] c = "Y" -> "y" [] c = "S" -> "s"
      [] OTHER -> c

\* s.lower()
Lower(s) == [i \in 1..Len(s) |-> LowerChar(s[i])]

RECURSIVE FirstWord(_)
\* The characters of s before its first white space.
FirstWord(s) ==
    IF s = <<>> \/ Head(s) \in Whitespace THEN <<>> ELSE <<Head(s)>> \o FirstWord(Tail(s))

\* s.split(None, 1), for s already stripped.
SplitWhitespaceOnce(s) ==
    LET first == FirstWord(s)
        rest == LStrip(Drop(s, Len(first)))
    IN  IF s = <<>> THEN <<>>
        ELSE IF rest = <<>> THEN <<first>> ELSE <<first, rest>>

RECURSIVE SplitChar(_, _)
\* s.split(c)
SplitChar(s, c) ==
    IF \A i \in 1..Len(s) : s[i] # c
    THEN <<s>>
    ELSE LET i == CHOOSE j \in 1..Len(s) : s[j] = c /\ \A k \in 1..(j - 1) : s[k] # c
         IN  <<SubSeq(s, 1, i - 1)>> \o SplitChar(Drop(s, i), c)

\* s.removeprefix(p)
RemovePrefix(s, p) == IF StartsWith(s, p) THEN Drop(s, Len(p)) ELSE s

\* headers.get(name, "") on the lower-cased header dictionary.
HeaderGet(headers, name) == IF headers[name] = None THEN <<>> ELSE headers[name]

(***************************************************************************)
(* MCPMux.__call__: the local path relative to the mount.                  *)
(***************************************************************************)
\* The local path the mux derives from the raw path and root_path (lines 203-215).
MuxLocal(raw_path, root_path) ==
    LET stripped == IF root_path # <<>> /\ StartsWith(raw_path, root_path)
                    THEN OrDefault(Drop(raw_path, Len(root_path)), Slash)
                    ELSE raw_path
    IN  IF stripped \in {S_mcp, S_mcp \o Slash}
        THEN Slash
        ELSE IF StartsWith(stripped, S_mcp \o Slash)
             THEN OrDefault(Drop(stripped, Len(S_mcp)), Slash)
             ELSE stripped

\* raw_path = scope.get("path") or "/"
RawPath(s) == OrDefault(s.path, Slash)

\* root_path = scope.get("root_path", "") or ""
RootPath(s) == OrDefault(s.root_path, <<>>)

IsStreamPath(loc) == StartsWith(loc, S_sse) \/ StartsWith(loc, S_messages)

\* An invocation `await app(scope, receive, send)`: the application, the scope
\* it is given, whether that scope is a copy made by dict(scope), the
\* receive and send callables it is given (the caller's own, by name), and
\* how the call ended, once it has.
Invocation(app, s, fresh) ==
    [app |-> app, scope |-> s, fresh |-> fresh, receive |-> "receive", send |-> "send",
     outcome |-> "running"]

\* No second connection.
NoPeer == [pc |-> "none"]

\* An exception: its type and the callable that raised it.
Error(type, origin) == [type |-> type, origin |-> origin]

\* No exception.
NoError == Error("none", "none")

\* What an awaited callable hands back to its caller: the exception it let
\* out (or none) and the messages the layers sent on the way.
Result(exc, msgs) == [raised |-> exc, sent |-> msgs]

\* The fallback branch re-inserting the prefix in front of the local path.
MuxFallbackPrefixed(s, loc) ==
    Invocation("http", [s EXCEPT !.path = S_mcp \o loc], TRUE)

\* The fallback branch handing the connection to the SSE app.
MuxFallbackToStream(s, loc) ==
    IF loc # RawPath(s)
    THEN Invocation("sse", [s EXCEPT !.path = loc], TRUE)
    ELSE Invocation("sse", s, FALSE)

\* The fallback branch writing the local path into the caller's own scope and
\* passing that same object on.
MuxFallbackInPlace(s, loc) ==
    IF loc # RawPath(s)
    THEN Invocation("http", [s EXCEPT !.path = loc], FALSE)
    ELSE Invocation("http", s, FALSE)

\* Fallback to the HTTP app (lines 243-250).
MuxFallback(s, loc) ==
    IF loc # RawPath(s)
    THEN Invocation("http", [s EXCEPT !.path = loc], TRUE)
    ELSE Invocation("http", s, FALSE)

\* The stream branch sending the connection to the HTTP app.
MuxStreamToHttp(s, loc) ==
    IF loc # RawPath(s)
    THEN Invocation("http", [s EXCEPT !.path = loc], TRUE)
    ELSE Invocation("http", s, FALSE)

\* SSE endpoints (lines 233-241).
MuxStream(s, loc) ==
    IF loc # RawPath(s)
    THEN Invocation("sse", [s EXCEPT !.path = loc], TRUE)
    ELSE Invocation("sse", s, FALSE)

\* HTTP Streamable at the local root (lines 220-231).
MuxRoot(s, probe) ==
    IF probe
    THEN Invocation("http", [s EXCEPT !.root_path = <<>>, !.path = S_mcp], TRUE)
    ELSE Invocation("http", s, FALSE)

\* Other scopes (e.g. lifespan) pass through to the HTTP app (lines 252-253).
MuxOther(s) == Invocation("http", s, FALSE)

\* The invocation MCPMux.__call__ makes for scope s.
MuxDispatch(s, probe) ==
    IF s.type \in {"http", "websocket"}
    THEN LET loc == MuxLocal(RawPath(s), RootPath(s))
         IN  IF loc = Slash
             THEN MuxRoot(s, probe)
             ELSE IF IsStreamPath(loc)
                  THEN MuxStream(s, loc)
                  ELSE MuxFallback(s, loc)
    ELSE MuxOther(s)

(***************************************************************************)
(* Messages the gateway layers send themselves.                            *)
(***************************************************************************)
Message(type, status, code, www_authenticate, body) ==
    [type |-> type, status |-> status, code |-> code,
     www_authenticate |-> www_authenticate, body |-> body]

\* A Starlette response called on the connection: start, then body. On a
\* websocket scope a Starlette with denial responses prefixes the types.
Response(status, www_authenticate, body, denial) ==
    <<Message(IF denial THEN "websocket.http.response.start" ELSE "http.response.start",
              status, 0, www_authenticate, ""),
      Message(IF denial THEN "websocket.http.response.body" ELSE "http.response.body",
              0, 0, None, body)>>

(***************************************************************************)
(* MCPAuthASGI of src/mcp_server/main.py.                                  *)
(***************************************************************************)
\* self.prefix = os.getenv(prefix_env, "/mcp").rstrip("/") or "/mcp"
InitPrefix(e) == OrDefault(RStripChar(IF e = None THEN S_mcp ELSE e, "/"), S_mcp)

\* token = os.getenv(primary) or os.getenv(alt) or "dev-token"
\* self.token = token.strip().strip('"').strip("'")
InitToken(primary, alt) ==
    StripChar(StripChar(Strip(OrDefault(primary, OrDefault(alt, S_dev_token))), "\""), "'")

\* os.getenv("ALLOW_CF_ACCESS", "0").lower() in ("1", "true", "yes")
InitAllowCf(e) ==
    Lower(IF e = None THEN <<"0">> ELSE e)
        \in {<<"1">>, <<"t", "r", "u", "e">>, <<"y", "e", "s">>}

\* path == self.prefix or path.startswith(self.prefix + "/")
Under(path, pfx) == path = pfx \/ StartsWith(path, pfx \o Slash)

\* The query-string loop (lines 94-99): the first key=value starting with
\* 'auth=' sets the candidate; without one the candidate stays as it was.
QueryAuth(q, supplied) ==
    LET kvs == SplitChar(q, "&")
        hits == {i \in 1..Len(kvs) : StartsWith(kvs[i], S_auth_eq)}
    IN  IF hits = {} THEN supplied
        ELSE LET i == CHOOSE j \in hits : \A k \in hits : j <= k
             IN  OrDefault(Drop(kvs[i], Len(S_auth_eq)), None)

\* The extraction consulting the sources in the reverse order: the query
\* string, then the alternate header, then the Authorization header.
SuppliedQueryFirst(headers, q) ==
    LET fromQuery == IF q # <<>> THEN QueryAuth(q, None) ELSE None
        x_token == HeaderGet(headers, "x_auth_token")
        fromHeader == IF Falsy(fromQuery) /\ x_token # <<>>
                      THEN Strip(x_token)
                      ELSE fromQuery
        auth_hdr == HeaderGet(headers, "authorization")
        parts == SplitWhitespaceOnce(Strip(auth_hdr))
    IN  IF Falsy(fromHeader) /\ auth_hdr # <<>> /\ Len(parts) = 2
           /\ Lower(parts[1]) = S_bearer
        THEN Strip(parts[2])
        ELSE fromHeader

\* The candidate extracted from the headers and the query string (lines 81-99).
Supplied(headers, q) ==
    LET auth_hdr == HeaderGet(headers, "authorization")
        parts == SplitWhitespaceOnce(Strip(auth_hdr))
        fromBearer == IF auth_hdr # <<>> /\ Len(parts) = 2 /\ Lower(parts[1]) = S_bearer
                      THEN Strip(parts[2])
                      ELSE None
        x_token == HeaderGet(headers, "x_auth_token")
        fromHeader == IF Falsy(fromBearer) /\ x_token # <<>>
                      THEN Strip(x_token)
                      ELSE fromBearer
    IN  IF Falsy(fromHeader) /\ q # <<>> THEN QueryAuth(q, fromHeader) ELSE fromHeader

\* The wrapper protecting only the paths strictly below the prefix.
AuthDecisionBelowOnly(s, pfx, tok, cf) ==
    IF s.type = "lifespan" THEN "lifespan"
    ELSE IF StartsWith(OrDefault(s.path, Slash), pfx \o Slash)
         THEN IF cf /\ s.headers.cf_access_jwt_assertion # None THEN "cf_bypass"
              ELSE IF Supplied(s.headers, s.query_string) # tok THEN "rejected"
                   ELSE "accepted"
         ELSE "outside"

\* The wrapper honouring the Cloudflare header whatever ALLOW_CF_ACCESS says.
AuthDecisionCfAlways(s, pfx, tok, cf) ==
    IF s.type = "lifespan" THEN "lifespan"
    ELSE IF Under(OrDefault(s.path, Slash), pfx)
         THEN IF s.headers.cf_access_jwt_assertion # None THEN "cf_bypass"
              ELSE IF Supplied(s.headers, s.query_string) # tok THEN "rejected"
                   ELSE "accepted"
         ELSE "outside"

\* The wrapper running the credential gate on lifespan scopes as well.
AuthDecisionNoLifespan(s, pfx, tok, cf) ==
    IF Under(OrDefault(s.path, Slash), pfx)
    THEN IF cf /\ s.headers.cf_access_jwt_assertion # None THEN "cf_bypass"
         ELSE IF Supplied(s.headers, s.query_string) # tok THEN "rejected"
              ELSE "accepted"
    ELSE "outside"

\* The branch MCPAuthASGI.__call__ takes for scope s (lines 66-110).
AuthDecision(s, pfx, tok, cf) ==
    IF s.type = "lifespan" THEN "lifespan"
    ELSE IF Under(OrDefault(s.path, Slash), pfx)
         THEN IF cf /\ s.headers.cf_access_jwt_assertion # None THEN "cf_bypass"
              ELSE IF Supplied(s.headers, s.query_string) # tok THEN "rejected"
                   ELSE "accepted"
         ELSE "outside"

(***************************************************************************)
(* service.py: the admin endpoints /run_allowed and /apply_files.          *)
(***************************************************************************)
\* WORKSPACE = Path(os.getenv("WORKSPACE_DIR", "/workspace")).resolve(), with
\* the variable unset and no symbolic link on the way.
WORKSPACE == <<"/", "w", "o", "r", "k", "s", "p", "a", "c", "e">>

\* GENERATED / "__reload__.txt"
ReloadFile ==
    <<"/", "w", "o", "r", "k", "s", "p", "a", "c", "e", "/", "g",
      "e", "n", "e", "r", "a", "t", "e", "d", "_", "a", "p", "i",
      "/", "_", "_", "r", "e", "l", "o", "a", "d", "_", "_", ".",
      "t", "x", "t">>

S_alembic_upgrade ==
    <<"a", "l", "e", "m", "b", "i", "c", " ", "u", "p", "g", "r",
      "a", "d", "e", " ", "h", "e", "a", "d">>

S_alembic_downgrade ==
    <<"a", "l", "e", "m", "b", "i", "c", " ", "d", "o", "w", "n",
      "g", "r", "a", "d", "e", " ", "-", "1">>

S_alembic_revision ==
    <<"a", "l", "e", "m", "b", "i", "c", " ", "r", "e", "v", "i",
      "s", "i", "o", "n", " ", "-", "-", "a", "u", "t", "o", "g",
      "e", "n", "e", "r", "a", "t", "e", " ", "-", "m", " ">>

S_pytest == <<"p", "y", "t", "e", "s", "t", " ", "-", "q">>

ALLOWED_CMDS == <<S_alembic_upgrade, S_alembic_downgrade, S_alembic_revision, S_pytest>>

\* any(cmd.startswith(p) for p in ALLOWED_CMDS)
IsAllowed(cmd) == \E i \in 1..Len(ALLOWED_CMDS) : StartsWith(cmd, ALLOWED_CMDS[i])

\* _require_admin: the status of the HTTPException it raises, 200 if none.
RequireAdmin(admin, x_admin_token) ==
    IF admin = <<>> THEN 500
    ELSE IF OrDefault(x_admin_token, <<>>) # admin THEN 401
    ELSE 200

\* s.replace(a, b) for single characters
ReplaceChar(s, a, b) == [i \in 1..Len(s) |-> IF s[i] = a THEN b ELSE s[i]]

RECURSIVE Join(_, _)
\* c.join(parts)
Join(parts, c) ==
    IF parts = <<>> THEN <<>>
    ELSE IF Len(parts) = 1 THEN parts[1]
    ELSE parts[1] \o <<c>> \o Join(Tail(parts), c)

\* WORKSPACE / p: an absolute p replaces the base, a relative one is appended.
PathJoin(base, p) ==
    IF StartsWith(p, Slash) THEN p
    ELSE IF p = <<>> THEN base
    ELSE base \o Slash \o p

RECURSIVE ResolveParts(_, _)
\* Path.resolve() on the components of an absolute path: empty and "."
\* components go, ".." removes the component before it (none at the root).
ResolveParts(parts, acc) ==
    IF parts = <<>> THEN acc
    ELSE LET c == Head(parts)
         IN  IF c = <<>> \/ c = <<".">>
             THEN ResolveParts(Tail(parts), acc)
             ELSE IF c = <<".", ".">>
             THEN ResolveParts(Tail(parts),
                               IF acc = <<>> THEN acc ELSE SubSeq(acc, 1, Len(acc) - 1))
             ELSE ResolveParts(Tail(parts), Append(acc, c))

\* str(Path(path).resolve()) for an absolute path
Resolve(path) == Slash \o Join(ResolveParts(SplitChar(path, "/"), <<>>), "/")

\* _safe_rel_path: the resolved path, and whether the check lets it through.
SafeRelPath(p) ==
    LET pth == Resolve(PathJoin(WORKSPACE, p))
    IN  [path |-> pth, ok |-> StartsWith(pth, WORKSPACE)]

RECURSIVE WriteFilesFrom(_, _)
\* _write_files: the files of the mapping in order, each written before the
\* next is looked at; the first rejected path ends the loop with a 400.
WriteFilesFrom(files, acc) ==
    IF files = <<>> THEN [written |-> acc, status |-> 200]
    ELSE LET rel == ReplaceChar(LStripChar(Head(files), "/"), "\\", "/")
             dst == SafeRelPath(rel)
         IN  IF ~dst.ok
             THEN [written |-> acc, status |-> 400]
             ELSE WriteFilesFrom(Tail(files), Append(acc, dst.path))

WriteFiles(files) == WriteFilesFrom(files, <<>>)

\* No request of service.py is in progress.
NoRequest == [x_admin_token |-> None]

NoService ==
    /\ ADMIN_TOKEN = <<>>
    /\ req = NoRequest
    /\ status_code = 0
    /\ executed = <<>>
    /\ written = <<>>

(***************************************************************************)
(* Log records, as the text that reaches the log.                          *)
(***************************************************************************)
\* A log record: its text, and the fragment of it that was interpolated from
\* a credential ("candidate": what the client supplied, "token": the
\* configured secret, "none": nothing).
LogRecord(text, of, shown) == [text |-> text, of |-> of, shown |-> shown]

\* s[:n]
Take(s, n) == SubSeq(s, 1, IF n < Len(s) THEN n ELSE Len(s))

\* sub in s
Contains(s, sub) ==
    \E i \in 0..(Len(s) - Len(sub)) : SubSeq(s, i + 1, i + Len(sub)) = sub

\* The header names main.py lists on a 401: sorted(headers.keys()).
HeaderNames(headers) ==
    (IF headers.authorization # None THEN <<"'", "a", "u", "t", "h", "o", "r", "i", "z", "a", "t", "i", "o", "n", "'", " ">> ELSE <<>>)
    \o (IF headers.cf_access_jwt_assertion # None
        THEN <<"'", "c", "f", "-", "a", "c", "c", "e", "s", "s", "-", "j", "w", "t", "-", "a", "s", "s", "e", "r", "t", "i", "o", "n", "'", " ">> ELSE <<>>)
    \o (IF headers.x_auth_token # None THEN <<"'", "x", "-", "a", "u", "t", "h", "-", "t", "o", "k", "e", "n", "'", " ">> ELSE <<>>)
    \o (IF headers.x_mcp_token # None THEN <<"'", "x", "-", "m", "c", "p", "-", "t", "o", "k", "e", "n", "'", " ">> ELSE <<>>)

\* LOG.warning("401 on %s - headers seen: %s", path, sorted(headers.keys()))
MainLogRejected(s) ==
    LogRecord(
    <<"4", "0", "1", " ", "o", "n", " ">> \o OrDefault(s.path, Slash)
    \o <<" ", "-", " ", "h", "e", "a", "d", "e", "r", "s", " ", "s", "e", "e", "n", ":", " ">> \o HeaderNames(s.headers),
    "none", <<>>)

\* redacted = supplied[:4] + "***" if supplied else "<missing>"
AsgiRedacted(supplied) ==
    IF supplied # <<>> THEN Take(supplied, 4) \o <<"*", "*", "*">> ELSE <<"<", "m", "i", "s", "s", "i", "n", "g", ">">>

\* logging.warning("Unauthorized /mcp request: token mismatch (%s)", redacted)
AsgiLogRejected(supplied) ==
    LogRecord(
    <<"U", "n", "a", "u", "t", "h", "o", "r", "i", "z", "e", "d", " ", "/", "m", "c", "p", " ", "r", "e", "q", "u", "e", "s", "t", ":", " ", "t", "o", "k", "e", "n", " ", "m", "i", "s", "m", "a", "t", "c", "h", " ", "(">>
    \o AsgiRedacted(supplied) \o <<")">>,
    "candidate", Take(supplied, 4))

\* logging.info(f"MCP Bearer auth enabled with token: {self.mcp_token[:8]}...")
MiddlewareLogStartup(tok) ==
    LogRecord(
    <<"M", "C", "P", " ", "B", "e", "a", "r", "e", "r", " ", "a", "u", "t", "h", " ", "e", "n", "a", "b", "l", "e", "d", " ", "w", "i", "t", "h", " ", "t", "o", "k", "e", "n", ":", " ">>
    \o Take(tok, 8) \o <<".", ".", ".">>,
    "token", Take(tok, 8))

(***************************************************************************)
(* The way back: what each layer does with the result of the application   *)
(* it awaited.                                                             *)
(***************************************************************************)
\* MCPMux catching the backend's exception and answering 500 itself.
MuxReturnSwallow(r) ==
    IF r.raised # NoError
    THEN Result(NoError, r.sent \o Response(500, None, "Internal Server Error", FALSE))
    ELSE r

\* MCPMux.__call__: every branch is `return await app(...)` outside any try
\* block, so the result passes through as it is.
MuxReturn(r) == r

\* The inner FastAPI application: its error middleware answers an http
\* connection whose response has not started with 500 and raises again.
InnerReturn(s, started, r) ==
    IF /\ r.raised # NoError
       /\ r.raised.type # "CancelledError"
       /\ s.type = "http"
       /\ ~started
    THEN Result(r.raised, r.sent \o Response(500, None, "Internal Server Error", FALSE))
    ELSE r

\* MCPAuthASGI.__call__ of main.py: `return await self.app(...)` outside any
\* try block (the only try block wraps the log call of line 103).
AuthReturn(r) == r

\* The applications behind the gateway and the errors they may raise.
Backends == {"http", "sse", "health", "http.lifespan"}

BackendErrors == {"RuntimeError", "CancelledError"}

(***************************************************************************)
(* MCPAuthASGI of src/mcp_server/auth_asgi.py.                             *)
(***************************************************************************)
\* TOKEN = os.getenv("MCP_TOKEN", "").strip();  self.token = token or TOKEN
AsgiInitToken(arg, e) == OrDefault(arg, Strip(IF e = None THEN <<>> ELSE e))

\* headers.get("authorization", "").removeprefix("Bearer ").strip()
\*     or headers.get("x-mcp-token", "")
AsgiSupplied(headers) ==
    OrDefault(Strip(RemovePrefix(HeaderGet(headers, "authorization"), S_Bearer \o <<" ">>)),
              HeaderGet(headers, "x_mcp_token"))

\* The branch auth_asgi.MCPAuthASGI.__call__ takes for scope s (lines 16-31).
AsgiDecision(s, tok) ==
    IF StartsWith(s.path, S_mcp)
    THEN IF tok = <<>> \/ AsgiSupplied(s.headers) # tok THEN "rejected" ELSE "accepted"
    ELSE "outside"

(***************************************************************************)
(* The legacy MCPAuthASGI of src/mcp_server/auth.py, around an application *)
(* that is not a FastAPI instance.                                         *)
(***************************************************************************)
\* self.mcp_token = os.getenv("MCP_TOKEN", "dev-token")
LegacyInitToken(e) == IF e = None THEN S_dev_token ELSE e

\* The branch auth.MCPAuthASGI.__call__ takes for scope s (lines 39-59):
\* only http scopes are checked, against the exact text "Bearer <token>".
LegacyDecision(s, tok) ==
    IF s.type = "http" /\ StartsWith(s.path, S_mcp)
    THEN IF HeaderGet(s.headers, "authorization") # S_Bearer \o <<" ">> \o tok
         THEN "rejected"
         ELSE "accepted"
    ELSE "outside"

(***************************************************************************)
(* The fallback assembly of main.py: the minimal stub router under /mcp    *)
(* and /health, served by FastAPI's router.                                *)
(***************************************************************************)
StubHealthBody == "{\"ok\":true,\"transport\":\"none\",\"reason\":\"...\"}"
StubHttpBody == "{\"error\":\"MCP HTTP streamable not available. Install/update mcp.server.\"}"
StubSseBody == "{\"error\":\"MCP SSE not available. Install/update mcp.server.\"}"
StubMessagesBody == "{\"error\":\"MCP SSE messages not available. Install/update mcp.server.\"}"
StubRootBody == "{\"ok\":false,\"hint\":\"POST JSON-RPC to /mcp with Authorization header.\"}"

Route(method, path, status, body) ==
    [method |-> method, path |-> path, status |-> status, body |-> body]

\* The stub routes with the HTTP stub answering with the default status.
StubRoutesDefaultStatus ==
    <<Route("GET", S_mcp \o S_health, 200, StubHealthBody),
      Route("POST", S_mcp \o Slash, 200, StubHttpBody),
      Route("GET", S_mcp \o S_sse, 503, StubSseBody),
      Route("POST", S_mcp \o S_messages \o Slash, 503, StubMessagesBody),
      Route("GET", S_mcp \o Slash, 200, StubRootBody),
      Route("GET", S_health, 200, StubHealthBody)>>

\* The routes of the fallback application, in registration order:
\* include_router(create_minimal_mcp_router(), prefix="/mcp"), then /health.
StubRoutes ==
    <<Route("GET", S_mcp \o S_health, 200, StubHealthBody),
      Route("POST", S_mcp \o Slash, 503, StubHttpBody),
      Route("GET", S_mcp \o S_sse, 503, StubSseBody),
      Route("POST", S_mcp \o S_messages \o Slash, 503, StubMessagesBody),
      Route("GET", S_mcp \o Slash, 200, StubRootBody),
      Route("GET", S_health, 200, StubHealthBody)>>

\* The path with its trailing slash toggled (the router's redirect_slashes).
ToggleSlash(path) ==
    IF path[Len(path)] = "/" THEN SubSeq(path, 1, Len(path) - 1) ELSE path \o Slash

\* The response of the fallback application to an http scope: the first
\* route matching path and method; else 405 when a route matches the path;
\* else a redirect when the slash-toggled path has a route; else 404.
StubResponse(s) ==
    LET full == {i \in 1..Len(StubRoutes) :
                    StubRoutes[i].path = s.path /\ StubRoutes[i].method = s.method}
        partial == {i \in 1..Len(StubRoutes) : StubRoutes[i].path = s.path}
        toggled == {i \in 1..Len(StubRoutes) : StubRoutes[i].path = ToggleSlash(s.path)}
    IN  IF full # {}
        THEN LET i == CHOOSE j \in full : \A k \in full : j <= k
             IN  Response(StubRoutes[i].status, None, StubRoutes[i].body, FALSE)
        ELSE IF partial # {}
        THEN Response(405, None, "{\"detail\":\"Method Not Allowed\"}", FALSE)
        ELSE IF s.path # Slash /\ toggled # {}
        THEN Response(307, None, "", FALSE)
        ELSE Response(404, None, "{\"detail\":\"Not Found\"}", FALSE)

(***************************************************************************)
(* Inputs.                                                                 *)
(***************************************************************************)
ScopeTypes == {"http", "websocket", "lifespan"}

NoHeaders == [authorization |-> None, x_auth_token |-> None,
              x_mcp_token |-> None, cf_access_jwt_assertion |-> None]

MuxPieces == {S_mcp, S_sse, S_messages, S_health, Slash, <<"x">>}

RECURSIVE PathsOf(_)
PathsOf(n) ==
    IF n = 0 THEN {<<>>}
    ELSE PathsOf(n - 1) \cup {p \o q : p \in PathsOf(n - 1), q \in MuxPieces}

\* Mount prefixes an outer layer may have recorded in root_path.
MuxRootPaths == {<<>>, S_mcp, S_outer, S_outer \o S_mcp}

\* Raw paths: pieces, possibly behind an outer mount prefix; as in every ASGI
\* scope, a path starts with a slash.
MuxPaths ==
    {q \in {m \o p : m \in {<<>>, S_outer, S_outer \o S_mcp}, p \in PathsOf(MaxPieces)} :
        StartsWith(q, Slash)}

S_tok == <<"s", "3">>

Environment(pfx, bearer, tok, cf) ==
    [MCP_PREFIX |-> pfx, MCP_BEARER |-> bearer, MCP_TOKEN |-> tok, ALLOW_CF_ACCESS |-> cf]

\* MCP_PREFIX: unset, '/', with a trailing slash, without a leading slash.
PrefixEnvs == {None, Slash, S_api \o Slash, <<"a", "p", "i">>}

\* (MCP_BEARER, MCP_TOKEN): both unset; a quoted token in the alternate
\* variable; a blank primary variable in front of a token.
TokenEnvs == {<<None, None>>, <<None, <<"'">> \o S_tok \o <<"'">> >>, << <<" ">>, S_tok>>}

AllowCfEnvs == {None, <<"T", "r", "u", "e">>}

\* Authorization header values: absent; Bearer with the token; lower-case
\* scheme and two spaces; a longer token; another scheme; no scheme; the
\* default token.
AuthorizationValues ==
    {None,
     S_Bearer \o <<" ">> \o S_tok,
     S_bearer \o <<" ", " ">> \o S_tok,
     S_Bearer \o <<" ">> \o S_tok \o <<"x">>,
     <<"B", "a", "s", "i", "c", " ">> \o S_tok,
     S_tok,
     S_Bearer \o <<" ">> \o S_dev_token}

\* Values of the alternate header: absent, the token, blank, another token.
AlternateValues == {None, S_tok, <<" ">>, <<"w">>}

\* Query strings: none, the token, an empty auth= in front of the token.
QueryStrings == {<<>>, S_auth_eq \o S_tok, S_auth_eq \o <<"&">> \o S_auth_eq \o S_tok}

CfValues == {None, <<"j", "w", "t">>}

\* Paths of connections arriving at the application.
AppPaths ==
    {Slash, S_mcp, S_mcp \o Slash, S_mcp \o S_sse, S_mcp \o S_health,
     S_mcp \o <<"x">>, S_health, S_api \o S_sse}

\* scope["method"]: http scopes carry a method, the other types carry none.
Method(t) == IF t = "http" THEN "GET" ELSE ""

MainScopes ==
    {[type |-> t, method |-> Method(t), path |-> p, root_path |-> <<>>,
      headers |-> [authorization |-> a, x_auth_token |-> x, x_mcp_token |-> None,
                   cf_access_jwt_assertion |-> c],
      query_string |-> q] :
        t \in {"http", "websocket"}, p \in AppPaths, a \in AuthorizationValues,
        x \in AlternateValues, c \in CfValues, q \in QueryStrings}
    \cup
    {[type |-> "lifespan", method |-> "", path |-> p, root_path |-> <<>>,
      headers |-> [NoHeaders EXCEPT !.authorization = a],
      query_string |-> <<>>] :
        p \in AppPaths, a \in AuthorizationValues}

AsgiScopes ==
    {[type |-> t, method |-> Method(t), path |-> p, root_path |-> <<>>,
      headers |-> [authorization |-> a, x_auth_token |-> None, x_mcp_token |-> x,
                   cf_access_jwt_assertion |-> None],
      query_string |-> q] :
        t \in ScopeTypes, p \in AppPaths, a \in AuthorizationValues,
        x \in AlternateValues, q \in {<<>>, S_auth_eq \o S_tok}}

\* Scopes handed to the legacy wrapper: it reads the Authorization header only.
LegacyScopes ==
    {[type |-> t, method |-> Method(t), path |-> p, root_path |-> <<>>,
      headers |-> [NoHeaders EXCEPT !.authorization = a],
      query_string |-> <<>>] :
        t \in ScopeTypes, p \in AppPaths, a \in AuthorizationValues}

\* Paths of connections arriving at the fallback application.
FallbackPaths ==
    {Slash, S_health, S_mcp, S_mcp \o Slash, S_mcp \o S_sse, S_mcp \o S_sse \o Slash,
     S_mcp \o S_messages, S_mcp \o S_messages \o Slash, S_mcp \o S_health,
     S_mcp \o Slash \o <<"x">>}

\* Scopes handed to the fallback assembly: GET and POST requests, websocket
\* and lifespan connections, with no credential or a Bearer token.
FallbackScopes ==
    {[type |-> tm[1], method |-> tm[2], path |-> p, root_path |-> <<>>,
      headers |-> [NoHeaders EXCEPT !.authorization = a],
      query_string |-> <<>>] :
        tm \in {<<"http", "GET">>, <<"http", "POST">>, <<"websocket", "">>,
                <<"lifespan", "">>},
        p \in FallbackPaths,
        a \in {None, S_Bearer \o <<" ">> \o S_tok, S_Bearer \o <<" ">> \o S_dev_token}}

\* app = MCPAuthASGI(inner) of main.py, built from the environment.
InitMain ==
    /\ entry = "main"
    /\ \E p \in PrefixEnvs, t \in TokenEnvs, c \in AllowCfEnvs :
          env = Environment(p, t[1], t[2], c)
    /\ prefix = InitPrefix(env.MCP_PREFIX)
    /\ token = InitToken(env.MCP_BEARER, env.MCP_TOKEN)
    /\ allow_cf_access = InitAllowCf(env.ALLOW_CF_ACCESS)
    /\ HTTP_NEEDS_INNER_PREFIX \in BOOLEAN
    /\ mcp_available = TRUE
    /\ scope \in MainScopes
    /\ cur = scope
    /\ pc = "auth"
    /\ decision = "pending"
    /\ local = None
    /\ sent = <<>>
    /\ calls = <<>>
    /\ log = <<>>
    /\ raised = NoError
    /\ peer = NoPeer
    /\ NoService

\* auth_asgi.MCPAuthASGI(app, token) around an application of the caller.
InitAsgi ==
    /\ entry = "auth_asgi"
    /\ \E t \in TokenEnvs : env = Environment(None, None, t[2], None)
    /\ prefix = S_mcp
    /\ \E arg \in {None, S_tok} : token = AsgiInitToken(arg, env.MCP_TOKEN)
    /\ allow_cf_access = FALSE
    /\ HTTP_NEEDS_INNER_PREFIX = FALSE
    /\ mcp_available = TRUE
    /\ scope \in AsgiScopes
    /\ cur = scope
    /\ pc = "auth"
    /\ decision = "pending"
    /\ local = None
    /\ sent = <<>>
    /\ calls = <<>>
    /\ log = <<>>
    /\ raised = NoError
    /\ peer = NoPeer
    /\ NoService

\* auth.MCPAuthASGI(app) around an application that is not a FastAPI instance.
InitLegacy ==
    /\ entry = "legacy"
    /\ \E t \in TokenEnvs : env = Environment(None, None, t[2], None)
    /\ prefix = S_mcp
    /\ token = LegacyInitToken(env.MCP_TOKEN)
    /\ allow_cf_access = FALSE
    /\ HTTP_NEEDS_INNER_PREFIX = FALSE
    /\ mcp_available = TRUE
    /\ scope \in LegacyScopes
    /\ cur = scope
    /\ pc = "auth"
    /\ decision = "pending"
    /\ local = None
    /\ sent = <<>>
    /\ calls = <<>>
    /\ log = <<>>
    /\ raised = NoError
    /\ peer = NoPeer
    /\ NoService

\* auth.MCPAuthASGI(app) around a FastAPI application: the wrapper registers
\* MCPAuthMiddleware and sets no token of its own. (token holds the token the
\* middleware reads from the same environment.)
InitLegacyFastAPI ==
    /\ entry = "legacy_fastapi"
    /\ \E t \in TokenEnvs : env = Environment(None, None, t[2], None)
    /\ prefix = S_mcp
    /\ token = LegacyInitToken(env.MCP_TOKEN)
    /\ allow_cf_access = FALSE
    /\ HTTP_NEEDS_INNER_PREFIX = FALSE
    /\ mcp_available = TRUE
    /\ scope \in LegacyScopes
    /\ cur = scope
    /\ pc = "auth"
    /\ decision = "pending"
    /\ local = None
    /\ sent = <<>>
    /\ calls = <<>>
    /\ log = <<>>
    /\ raised = NoError
    /\ peer = NoPeer
    /\ NoService

\* app = MCPAuthASGI(inner) of main.py's fallback assembly: the import of the
\* MCP transports failed and inner serves the minimal stub router.
InitFallback ==
    /\ entry = "main"
    /\ \E p \in {None, S_api \o Slash}, t \in TokenEnvs :
          env = Environment(p, t[1], t[2], None)
    /\ prefix = InitPrefix(env.MCP_PREFIX)
    /\ token = InitToken(env.MCP_BEARER, env.MCP_TOKEN)
    /\ allow_cf_access = InitAllowCf(env.ALLOW_CF_ACCESS)
    /\ HTTP_NEEDS_INNER_PREFIX = FALSE
    /\ mcp_available = FALSE
    /\ scope \in FallbackScopes
    /\ cur = scope
    /\ pc = "auth"
    /\ decision = "pending"
    /\ local = None
    /\ sent = <<>>
    /\ calls = <<>>
    /\ log = <<>>
    /\ raised = NoError
    /\ peer = NoPeer
    /\ NoService

\* Scopes of the first of two concurrent connections.
ConcScopes ==
    {[type |-> t, method |-> Method(t), path |-> p, root_path |-> <<>>,
      headers |-> [NoHeaders EXCEPT !.authorization = a],
      query_string |-> <<>>] :
        t \in ScopeTypes,
        p \in {S_mcp, S_mcp \o Slash, S_mcp \o S_sse, S_health},
        a \in {None, S_Bearer \o <<" ">> \o S_dev_token}}

\* Scopes of the second connection, as the mount at /mcp hands them to MCPMux.
PeerScopes ==
    {[type |-> t, method |-> Method(t), path |-> p, root_path |-> S_mcp,
      headers |-> NoHeaders, query_string |-> <<>>] :
        t \in ScopeTypes,
        p \in {S_mcp \o Slash, S_mcp \o S_sse, S_mcp \o Slash \o <<"x">>}}

\* The assembled application of main.py with two connections in flight: the
\* first arrives at MCPAuthASGI, the second is about to enter MCPMux.
InitConc ==
    /\ entry = "main"
    /\ \E p \in PrefixEnvs : env = Environment(p, None, None, None)
    /\ prefix = InitPrefix(env.MCP_PREFIX)
    /\ token = InitToken(env.MCP_BEARER, env.MCP_TOKEN)
    /\ allow_cf_access = InitAllowCf(env.ALLOW_CF_ACCESS)
    /\ HTTP_NEEDS_INNER_PREFIX \in BOOLEAN
    /\ mcp_available = TRUE
    /\ scope \in ConcScopes
    /\ cur = scope
    /\ pc = "auth"
    /\ decision = "pending"
    /\ local = None
    /\ sent = <<>>
    /\ calls = <<>>
    /\ log = <<>>
    /\ raised = NoError
    /\ \E s \in PeerScopes :
          peer = [scope |-> s, pc |-> "mux", local |-> None, calls |-> <<>>]
    /\ NoService

\* A connection whose backend may fail: it arrives at MCPAuthASGI of the
\* assembled application, or directly at MCPMux behind the mount.
InitFail ==
    /\ entry \in {"main", "mux"}
    /\ env = Environment(None, None, None, None)
    /\ prefix = InitPrefix(env.MCP_PREFIX)
    /\ token = InitToken(env.MCP_BEARER, env.MCP_TOKEN)
    /\ allow_cf_access = InitAllowCf(env.ALLOW_CF_ACCESS)
    /\ HTTP_NEEDS_INNER_PREFIX \in BOOLEAN
    /\ mcp_available = TRUE
    /\ scope \in IF entry = "main" THEN ConcScopes ELSE PeerScopes
    /\ cur = scope
    /\ pc = IF entry = "main" THEN "auth" ELSE "mux"
    /\ decision = "pending"
    /\ local = None
    /\ sent = <<>>
    /\ calls = <<>>
    /\ log = <<>>
    /\ raised = NoError
    /\ peer = NoPeer
    /\ NoService

\* A scope handed directly to MCPMux.
InitMux ==
    /\ entry = "mux"
    /\ \E p \in {None, S_api \o Slash} : env = Environment(p, None, None, None)
    /\ prefix = InitPrefix(env.MCP_PREFIX)
    /\ token = InitToken(env.MCP_BEARER, env.MCP_TOKEN)
    /\ allow_cf_access = InitAllowCf(env.ALLOW_CF_ACCESS)
    /\ HTTP_NEEDS_INNER_PREFIX \in BOOLEAN
    /\ mcp_available = TRUE
    /\ \E t \in ScopeTypes, p \in MuxPaths, r \in MuxRootPaths :
          scope = [type |-> t, method |-> Method(t), path |-> p, root_path |-> r,
                   headers |-> NoHeaders, query_string |-> <<>>]
    /\ cur = scope
    /\ pc = "mux"
    /\ decision = "pending"
    /\ local = None
    /\ sent = <<>>
    /\ calls = <<>>
    /\ log = <<>>
    /\ raised = NoError
    /\ peer = NoPeer
    /\ NoService

\* MCPMux.__call__ evaluating the root-prefix probe again on every call: the
\* child's routes may answer differently from one call to the next.
\* The mux trying the request handler and then the stream handler as well.
MuxCallBoth ==
    /\ pc = "mux"
    /\ local' = IF cur.type \in {"http", "websocket"}
                THEN MuxLocal(RawPath(cur), RootPath(cur))
                ELSE None
    /\ calls' = calls \o <<Invocation("http", cur, FALSE), Invocation("sse", cur, FALSE)>>
    /\ pc' = "done"
    /\ UNCHANGED <<service, entry, config, log, raised, peer, scope, cur, decision, sent>>

MuxCallReprobe ==
    /\ pc = "mux"
    /\ local' = IF cur.type \in {"http", "websocket"}
                THEN MuxLocal(RawPath(cur), RootPath(cur))
                ELSE None
    /\ HTTP_NEEDS_INNER_PREFIX' \in BOOLEAN
    /\ calls' = Append(calls, MuxDispatch(cur, HTTP_NEEDS_INNER_PREFIX'))
    /\ pc' = "done"
    /\ UNCHANGED <<service, entry, env, prefix, token, allow_cf_access, mcp_available,
                   log, raised, peer, scope, cur, decision, sent>>

\* MCPMux.__call__
MuxCall ==
    /\ pc = "mux"
    /\ local' = IF cur.type \in {"http", "websocket"}
                THEN MuxLocal(RawPath(cur), RootPath(cur))
                ELSE None
    /\ calls' = Append(calls, MuxDispatch(cur, HTTP_NEEDS_INNER_PREFIX))
    /\ pc' = "done"
    /\ UNCHANGED <<service, entry, config, log, raised, peer, scope, cur, decision, sent>>

\* MCPMux.__call__ for the second connection, which runs concurrently with
\* the first and reads the same cached probe.
PeerMuxCall ==
    /\ peer.pc = "mux"
    /\ peer' = [peer EXCEPT
                  !.pc = "done",
                  !.local = IF peer.scope.type \in {"http", "websocket"}
                            THEN MuxLocal(RawPath(peer.scope), RootPath(peer.scope))
                            ELSE None,
                  !.calls = Append(@, MuxDispatch(peer.scope, HTTP_NEEDS_INNER_PREFIX))]
    /\ UNCHANGED <<service, entry, config, log, raised, scope, cur, pc, decision, local, sent, calls>>

\* The application the gateway dispatched to runs: it returns, or it raises
\* before or after starting its response, and the result travels back
\* through the layers that awaited it.
BackendRun ==
    /\ pc = "done"
    /\ calls # <<>>
    /\ calls[Len(calls)].app \in Backends
    /\ \E outcome \in {"return"} \cup BackendErrors, started \in BOOLEAN :
          LET app == calls[Len(calls)].app
              r0 == Result(IF outcome = "return" THEN NoError ELSE Error(outcome, app),
                           <<>>)
              r1 == IF app \in {"http", "sse"} THEN MuxReturn(r0) ELSE r0
              r2 == IF entry = "main" THEN AuthReturn(InnerReturn(cur, started, r1)) ELSE r1
          IN  /\ raised' = r2.raised
              /\ sent' = sent \o r2.sent
              /\ pc' = IF r2.raised = NoError THEN "returned" ELSE "raised"
              /\ calls' = [calls EXCEPT ![Len(calls)].outcome = outcome]
    /\ UNCHANGED <<service, entry, config, log, peer, scope, cur, decision, local>>

\* MCPAuthASGI.__call__ of main.py
AuthCall ==
    /\ pc = "auth"
    /\ entry = "main"
    /\ decision' = AuthDecision(cur, prefix, token, allow_cf_access)
    /\ IF decision' = "rejected"
       THEN /\ \E denial \in {d \in BOOLEAN : d => cur.type = "websocket"} :
                 sent' = sent \o Response(401, S_Bearer, "Unauthorized", denial)
            /\ log' = Append(log, MainLogRejected(cur))
            /\ pc' = "done"
            /\ UNCHANGED calls
       ELSE /\ calls' = Append(calls, Invocation("inner", cur, FALSE))
            /\ pc' = "inner"
            /\ UNCHANGED <<sent, log>>
    /\ UNCHANGED <<service, entry, config, raised, peer, scope, cur, local>>

\* MCPAuthASGI.__call__ of auth_asgi.py
AuthAsgiCall ==
    /\ pc = "auth"
    /\ entry = "auth_asgi"
    /\ decision' = AsgiDecision(cur, token)
    /\ IF decision' = "rejected"
       THEN /\ sent' = IF cur.type = "websocket"
                       THEN Append(sent, Message("websocket.close", 0, 4401, None, ""))
                       ELSE sent \o Response(401, None, "{\"detail\":\"unauthorized\"}", FALSE)
            /\ log' = Append(log, AsgiLogRejected(AsgiSupplied(cur.headers)))
            /\ UNCHANGED calls
       ELSE /\ calls' = Append(calls, Invocation("inner", cur, FALSE))
            /\ UNCHANGED <<sent, log>>
    /\ pc' = "done"
    /\ UNCHANGED <<service, entry, config, raised, peer, scope, cur, local>>

\* MCPAuthASGI.__call__ of auth.py. Around a FastAPI application __init__
\* never sets self.mcp_token, and building expected_auth for an http scope
\* under /mcp raises AttributeError. Every other connection goes to the
\* application, which builds its middleware on this first call:
\* MCPAuthMiddleware.__init__ reads the token and writes its log record.
AuthLegacyCall ==
    /\ pc = "auth"
    /\ entry \in {"legacy", "legacy_fastapi"}
    /\ IF entry = "legacy_fastapi" /\ cur.type = "http" /\ StartsWith(cur.path, S_mcp)
       THEN /\ decision' = "error"
            /\ raised' = Error("AttributeError", "auth.MCPAuthASGI")
            /\ pc' = "raised"
            /\ UNCHANGED <<sent, calls, log>>
       ELSE /\ decision' = LegacyDecision(cur, token)
            /\ IF decision' = "rejected"
               THEN /\ sent' = sent \o Response(401, None, "{\"detail\":\"Unauthorized\"}",
                                                FALSE)
                    /\ UNCHANGED calls
               ELSE /\ calls' = Append(calls, Invocation("inner", cur, FALSE))
                    /\ UNCHANGED sent
            /\ log' = IF entry = "legacy_fastapi"
                      THEN Append(log, MiddlewareLogStartup(token))
                      ELSE log
            /\ pc' = "done"
            /\ UNCHANGED raised
    /\ UNCHANGED <<service, entry, config, peer, scope, cur, local>>

\* The inner FastAPI application of main.py's fallback assembly: it runs its
\* own lifespan, answers http scopes from the stub routes, and closes a
\* websocket, for which it has no route.
FallbackRoute ==
    /\ pc = "inner"
    /\ ~mcp_available
    /\ sent' = IF cur.type = "lifespan" THEN sent
               ELSE IF cur.type = "websocket"
                    THEN Append(sent, Message("websocket.close", 0, 1000, None, ""))
                    ELSE sent \o StubResponse(cur)
    /\ pc' = "done"
    /\ UNCHANGED <<service, entry, config, log, raised, peer, scope, cur, decision, local, calls>>

\* The inner FastAPI application of main.py: its lifespan is the HTTP app's
\* lifespan context, MCPMux is mounted at /mcp, and /health is a route.
InnerRoute ==
    /\ pc = "inner"
    /\ mcp_available
    /\ IF cur.type = "lifespan"
       THEN /\ calls' = Append(calls, Invocation("http.lifespan", cur, FALSE))
            /\ pc' = "done"
            /\ UNCHANGED <<cur, sent>>
       ELSE IF StartsWith(cur.path, S_mcp \o Slash)
       THEN \* Mount("/mcp"): the child scope gets the mount in root_path; the
            \* path is kept whole or cut to the remainder, by Starlette version.
            /\ \E keep \in BOOLEAN :
                 cur' = [cur EXCEPT !.root_path = cur.root_path \o S_mcp,
                                    !.path = IF keep THEN cur.path
                                             ELSE Drop(cur.path, Len(S_mcp))]
            /\ pc' = "mux"
            /\ UNCHANGED <<calls, sent>>
       ELSE IF cur.path = S_health /\ cur.type = "http"
       THEN /\ calls' = Append(calls, Invocation("health", cur, FALSE))
            /\ pc' = "done"
            /\ UNCHANGED <<cur, sent>>
       ELSE \* no route: a redirect to the slash-terminated mount, a 404, or a close
            /\ sent' = IF cur.type = "websocket"
                       THEN Append(sent, Message("websocket.close", 0, 1000, None, ""))
                       ELSE IF cur.path = S_mcp
                            THEN sent \o Response(307, None, "", FALSE)
                            ELSE sent \o Response(404, None, "Not Found", FALSE)
            /\ pc' = "done"
            /\ UNCHANGED <<cur, calls>>
    /\ UNCHANGED <<service, entry, config, log, raised, peer, scope, decision, local>>

Init == InitMain \/ InitAsgi \/ InitLegacy \/ InitLegacyFastAPI \/ InitFallback \/ InitMux

Next == AuthCall \/ AuthAsgiCall \/ AuthLegacyCall \/ InnerRoute \/ FallbackRoute \/ MuxCall

Spec == Init /\ [][Next]_vars

ConcNext == AuthCall \/ InnerRoute \/ MuxCall \/ PeerMuxCall

ConcSpec == InitConc /\ [][ConcNext]_vars

FailNext == AuthCall \/ InnerRoute \/ MuxCall \/ BackendRun

FailSpec == InitFail /\ [][FailNext]_vars

MuxNext == MuxCall

MuxSpec == InitMux /\ [][MuxNext]_vars

(***************************************************************************)
(* service.py: requests and handlers.                                      *)
(***************************************************************************)
\* ADMIN_TOKEN = os.getenv("ADMIN_TOKEN", ""): unset, or set.
AdminTokens == {<<>>, <<"a", "d", "m">>}

\* The X-Admin-Token header: absent, the token, another value.
AdminHeaders == {None, <<"a", "d", "m">>, <<"b", "a", "d">>}

\* Command lines sent to /run_allowed.
Commands ==
    {<<"p", "y", "t", "e", "s", "t", " ", "-", "q">>,
     <<" ", " ", "p", "y", "t", "e", "s", "t", " ", "-", "q", " ">>,
     <<"a", "l", "e", "m", "b", "i", "c", " ", "u", "p", "g", "r",
       "a", "d", "e", " ", "h", "e", "a", "d">>,
     <<"a", "l", "e", "m", "b", "i", "c", " ", "d", "o", "w", "n",
       "g", "r", "a", "d", "e", " ", "-", "1">>,
     <<"a", "l", "e", "m", "b", "i", "c", " ", "r", "e", "v", "i",
       "s", "i", "o", "n", " ", "-", "-", "a", "u", "t", "o", "g",
       "e", "n", "e", "r", "a", "t", "e", " ", "-", "m", " ", "x">>,
     <<"a", "l", "e", "m", "b", "i", "c", " ", "r", "e", "v", "i",
       "s", "i", "o", "n", " ", "-", "-", "a", "u", "t", "o", "g",
       "e", "n", "e", "r", "a", "t", "e", " ", "-", "m", " ">>,
     <<"p", "y", "t", "e", "s", "t", " ", "-", "q", ";", " ", "i",
       "d">>,
     <<"p", "y", "t", "e", "s", "t", " ", "-", "q", "x">>,
     <<"a", "l", "e", "m", "b", "i", "c", " ", "u", "p", "g", "r",
       "a", "d", "e", " ", "h", "e", "a", "d", " ", "&", "&", " ",
       "i", "d">>,
     <<"l", "s">>,
     <<"p", "y", "t", "e", "s", "t">>,
     <<>>}

\* Keys of the files mapping sent to /apply_files.
RelPaths ==
    {<<"a", ".", "t", "x", "t">>,
     <<"/", "e", "t", "c", "/", "x">>,
     <<".", ".", "/", "e", "t", "c", "/", "x">>,
     <<".", ".", "/", "w", "o", "r", "k", "s", "p", "a", "c", "e",
       "2", "/", "x">>,
     <<".", ".", "\\", "w", "o", "r", "k", "s", "p", "a", "c", "e",
       "2", "\\", "x">>,
     <<"s", "u", "b", "/", ".", ".", "/", "a", ".", "t", "x", "t">>,
     <<".", ".">>}

\* The files mapping, as its keys in iteration order (one or two files).
FileMappings ==
    {<<a>> : a \in RelPaths} \cup {f \in RelPaths \X RelPaths : f[1] # f[2]}

\* The gateway takes no part in a request to service.py.
NoGateway ==
    /\ env = Environment(None, None, None, None)
    /\ prefix = S_mcp
    /\ token = S_dev_token
    /\ allow_cf_access = FALSE
    /\ HTTP_NEEDS_INNER_PREFIX = FALSE
    /\ mcp_available = FALSE
    /\ scope = None
    /\ cur = None
    /\ decision = "none"
    /\ local = None
    /\ sent = <<>>
    /\ calls = <<>>
    /\ log = <<>>
    /\ raised = NoError
    /\ peer = NoPeer

InitRunAllowed ==
    /\ entry = "run_allowed"
    /\ NoGateway
    /\ ADMIN_TOKEN \in AdminTokens
    /\ \E c \in Commands, x \in AdminHeaders : req = [cmd |-> c, x_admin_token |-> x]
    /\ pc = "handler"
    /\ status_code = 0
    /\ executed = <<>>
    /\ written = <<>>

InitApplyFiles ==
    /\ entry = "apply_files"
    /\ NoGateway
    /\ ADMIN_TOKEN \in AdminTokens
    /\ \E f \in FileMappings, x \in AdminHeaders :
          req = [files |-> f, install |-> FALSE, x_admin_token |-> x]
    /\ pc = "handler"
    /\ status_code = 0
    /\ executed = <<>>
    /\ written = <<>>

\* POST /run_allowed
RunAllowed ==
    /\ pc = "handler"
    /\ entry = "run_allowed"
    /\ LET admin == RequireAdmin(ADMIN_TOKEN, req.x_admin_token)
           cmd == Strip(req.cmd)
       IN  IF admin # 200
           THEN status_code' = admin /\ UNCHANGED executed
           ELSE IF ~IsAllowed(cmd)
           THEN status_code' = 400 /\ UNCHANGED executed
           ELSE /\ executed' = Append(executed, cmd)
                /\ status_code' = 200
    /\ pc' = "done"
    /\ UNCHANGED <<entry, config, scope, cur, decision, local, sent, calls, log, raised,
                   peer, ADMIN_TOKEN, req, written>>

\* POST /apply_files (install is false: no pip run)
ApplyFiles ==
    /\ pc = "handler"
    /\ entry = "apply_files"
    /\ LET admin == RequireAdmin(ADMIN_TOKEN, req.x_admin_token)
           done == WriteFiles(req.files)
       IN  IF admin # 200
           THEN status_code' = admin /\ UNCHANGED written
           ELSE /\ status_code' = done.status
                /\ written' = IF done.status = 200
                              THEN written \o done.written \o <<ReloadFile>>
                              ELSE written \o done.written
    /\ pc' = "done"
    /\ UNCHANGED <<entry, config, scope, cur, decision, local, sent, calls, log, raised,
                   peer, ADMIN_TOKEN, req, executed>>

ServiceInit == InitRunAllowed \/ InitApplyFiles

ServiceNext == RunAllowed \/ ApplyFiles

ServiceSpec == ServiceInit /\ [][ServiceNext]_vars

(***************************************************************************)
(* The mux claims (C2-C9), stated on the connection the mux has handled.   *)
(***************************************************************************)
\* The mux has handled a request or persistentStream connection.
MuxRan == pc = "done" /\ local # None

\* The invocation the mux made.
MuxInvocation == calls[Len(calls)]

\* C5's reference: strip the mount prefix, then one copy of the protected prefix x.
RefNormalize(p, m, x) ==
    LET a == IF m # <<>> /\ StartsWith(p, m)
             THEN (IF Drop(p, Len(m)) = <<>> THEN Slash ELSE Drop(p, Len(m)))
             ELSE p
    IN  IF a = x \/ StartsWith(a, x \o Slash)
        THEN (IF Drop(a, Len(x)) = <<>> THEN Slash ELSE Drop(a, Len(x)))
        ELSE a

\* C2 (as claimed): on every dispatch by the mux the backend's scope has its
\* path equal to the rewritten path and its root_path equal to the empty string.
C2_NaturalRoot ==
    MuxRan =>
        /\ MuxInvocation.scope.root_path = <<>>
        /\ MuxInvocation.scope.path \in
              IF local = Slash
              THEN {IF HTTP_NEEDS_INNER_PREFIX THEN S_mcp ELSE Slash}
              ELSE IF IsStreamPath(local) THEN {local} ELSE {local, prefix \o local}

\* C3 (as claimed): normalising the mux's local path again, with an empty
\* mount prefix, gives the same local path.
C3_Idempotent ==
    MuxRan => MuxLocal(local, <<>>) = local

\* C4 (as claimed): a raw path m + x + x + s with s under /sse or /messages
\* normalises to s and is dispatched to the stream handler with path s.
C4_NestedMount ==
    \A s \in {S_sse, S_messages, S_sse \o Slash, S_messages \o Slash} :
        (/\ MuxRan
         /\ RootPath(cur) # <<>>
         /\ RawPath(cur) = RootPath(cur) \o prefix \o prefix \o s)
        => /\ local = s
           /\ MuxInvocation.app = "sse"
           /\ MuxInvocation.scope.path = s

\* C5 (as claimed): the mux's local path is the reference normalisation of the
\* raw path under the mount prefix and the configured protected prefix.
C5_NormalizeReference ==
    MuxRan => local = RefNormalize(RawPath(cur), RootPath(cur), prefix)

\* C6 (as claimed): at local path '/', the request handler is invoked with
\* path '/mcp' when the probe is true and with path '/' when it is false.
C6_RootRewrite ==
    (MuxRan /\ local = Slash) =>
        /\ MuxInvocation.app = "http"
        /\ MuxInvocation.scope.path = IF HTTP_NEEDS_INNER_PREFIX THEN S_mcp ELSE Slash

\* C7: a request or persistentStream connection whose local path starts with
\* /sse or /messages is dispatched to the stream handler only, with path equal
\* to the local path; no other connection reaches the stream handler.
C7_StreamRouting ==
    pc = "done" =>
        /\ (local # None /\ local # Slash /\ IsStreamPath(local)) =>
              /\ \A i \in 1..Len(calls) : calls[i].app \in {"inner", "sse"}
              /\ MuxInvocation.app = "sse"
              /\ MuxInvocation.scope.path = local
        /\ (local = None \/ ~IsStreamPath(local)) =>
              \A i \in 1..Len(calls) : calls[i].app # "sse"

\* C7's case: a websocket connection behind a mount prefix, rewritten to /sse...
C7_Witness ==
    /\ MuxRan
    /\ cur.type = "websocket"
    /\ RootPath(cur) = S_outer \o S_mcp
    /\ MuxInvocation.app = "sse"
    /\ MuxInvocation.fresh
    /\ MuxInvocation.scope.path = S_sse \o Slash \o <<"x">>

\* The connections C8 is about: request type, local path not '/', not /health,
\* under neither /sse nor /messages.
C8_Case ==
    /\ MuxRan
    /\ cur.type = "http"
    /\ local \notin {Slash, S_health}
    /\ ~IsStreamPath(local)

\* C8 (as claimed): the fallback dispatches to the request handler with the
\* protected prefix prepended to the local path.
C8_FallbackPrefixed ==
    C8_Case =>
        /\ MuxInvocation.app = "http"
        /\ MuxInvocation.scope.path = prefix \o local

\* C8 (amended): the fallback dispatches to the request handler with the
\* backend-visible path equal to the local path itself.
C8_FallbackLocal ==
    C8_Case =>
        /\ MuxInvocation.app = "http"
        /\ MuxInvocation.scope.path = local

\* C8's case: /mcp/x behind the /mcp mount is forwarded as /x.
C8_Witness ==
    /\ C8_Case
    /\ RootPath(cur) = S_mcp
    /\ RawPath(cur) = S_mcp \o Slash \o <<"x">>
    /\ MuxInvocation.fresh
    /\ MuxInvocation.scope.path = Slash \o <<"x">>

\* The connections C9 is about: a persistentStream whose local path matches no
\* row of the dispatch table (it starts with neither /sse nor /messages).
C9_Case ==
    /\ MuxRan
    /\ cur.type = "websocket"
    /\ ~IsStreamPath(local)

CredentialBad ==
    IF entry = "main"
    THEN Supplied(scope.headers, scope.query_string) # token
    ELSE token = <<>> \/ AsgiSupplied(scope.headers) # token

\* The connections C1 is about: an http connection under the protected prefix
\* whose credential is missing or incorrect.
C1_Case ==
    /\ entry \in {"main", "auth_asgi"}
    /\ scope.type = "http"
    /\ Under(OrDefault(scope.path, Slash), prefix)
    /\ CredentialBad

\* The connection was answered 401 and no application was invoked for it.
RejectedBeforeDispatch ==
    /\ calls = <<>>
    /\ pc # "auth" => (pc = "done" /\ sent # <<>> /\ sent[1].status = 401)

CfBypass ==
    /\ entry = "main"
    /\ allow_cf_access
    /\ scope.headers.cf_access_jwt_assertion # None

C10_Lifecycle ==
    (entry \in {"main", "mux"} /\ mcp_available /\ scope.type = "lifespan") =>
        /\ decision \in {"pending", "lifespan"}
        /\ sent = <<>>
        /\ \A i \in 1..Len(calls) : calls[i].app \in {"inner", "http", "http.lifespan"}
        /\ pc = "done" => \E i \in 1..Len(calls) : calls[i].app \in {"http", "http.lifespan"}

\* C10's case: a lifespan scope naming a protected path, with no credential.
C10_Witness ==
    /\ entry = "main"
    /\ mcp_available
    /\ scope.type = "lifespan"
    /\ scope.path = S_mcp \o S_sse
    /\ scope.headers.authorization = None
    /\ pc = "done"
    /\ decision = "lifespan"
    /\ calls[Len(calls)].app = "http.lifespan"

(***************************************************************************)
(* The credential claims (C11-C17), stated on the connection one of the    *)
(* auth wrappers has handled.                                              *)
(***************************************************************************)
\* The connection is a request or persistentStream handed to one of the two
\* wrappers C11-C14 name, with its path under the protected prefix.
Protected ==
    /\ entry \in {"main", "auth_asgi"}
    /\ scope.type \in {"http", "websocket"}
    /\ Under(OrDefault(scope.path, Slash), prefix)

\* The alternate header of the wrapper the connection was handed to.
AlternateHeader ==
    IF entry = "main" THEN scope.headers.x_auth_token ELSE scope.headers.x_mcp_token

\* The wrapper rejected the connection (or has not run yet); no application
\* was invoked.
GateRejects == decision \in {"pending", "rejected"} /\ calls = <<>>

\* C11 (as claimed): an http connection whose path is neither the protected
\* prefix nor below it meets no credential check: it is forwarded to the
\* inner application and the gateway sends no 401.
C11_OutsideNoCheck ==
    (/\ entry \in {"main", "auth_asgi"}
     /\ scope.type = "http"
     /\ ~Under(OrDefault(scope.path, Slash), prefix))
    => /\ decision \in {"pending", "outside"}
       /\ \A i \in 1..Len(sent) : sent[i].status # 401
       /\ pc # "auth" => (calls # <<>> /\ calls[1] = Invocation("inner", scope, FALSE))

\* The Authorization header is 'Bearer', one space, and a non-empty token
\* without white space that differs from the configured token.
WrongBearer ==
    LET h == scope.headers.authorization
        t == Drop(h, Len(S_Bearer) + 1)
    IN  /\ h # None
        /\ StartsWith(h, S_Bearer \o <<" ">>)
        /\ t # <<>>
        /\ \A i \in 1..Len(t) : t[i] \notin Whitespace
        /\ t # token

\* There is no Authorization header and the alternate header holds a
\* non-blank value that differs from the configured token.
WrongAlternate ==
    /\ scope.headers.authorization = None
    /\ AlternateHeader # None
    /\ Strip(AlternateHeader) # <<>>
    /\ Strip(AlternateHeader) # token

C13_ConfigGated ==
    (/\ Protected
     /\ ~CfBypass
     /\ token # <<>>
     /\ scope.headers.authorization = None
     /\ \/ AlternateHeader = token /\ scope.query_string = <<>>
        \/ AlternateHeader = None /\ scope.query_string = S_auth_eq \o token)
    => GateRejects

\* The candidate the wrapper extracted from the connection.
Candidate ==
    IF entry = "main"
    THEN Supplied(scope.headers, scope.query_string)
    ELSE AsgiSupplied(scope.headers)

\* The configured token is unset or empty.
TokenUnsetOrEmpty ==
    \/ token = <<>>
    \/ entry = "main" /\ env.MCP_BEARER = None /\ env.MCP_TOKEN = None

\* C14 (as claimed): a protected connection is authenticated exactly when its
\* candidate is non-empty and equal to the configured token, and never when
\* the configured token is unset or empty.
C14_ExactNonEmpty ==
    (Protected /\ ~CfBypass /\ pc # "auth") =>
        /\ decision = "accepted" <=>
              (Candidate # None /\ Candidate # <<>> /\ Candidate = token)
        /\ TokenUnsetOrEmpty => decision # "accepted"

\* The Authorization value is 'Bearer' in any letter case, exactly one space,
\* and a token; BearerToken is that token.
WellFormedBearer(h) ==
    /\ h # None
    /\ Len(h) > Len(S_Bearer) + 1
    /\ Lower(SubSeq(h, 1, Len(S_Bearer))) = S_bearer
    /\ h[Len(S_Bearer) + 1] = " "
    /\ \A i \in (Len(S_Bearer) + 2)..Len(h) : h[i] \notin Whitespace

BearerToken(h) == Drop(h, Len(S_Bearer) + 1)

\* The connections C15 is about: handed to one of the three wrappers, checked
\* by it, with the Authorization header as the only possible credential.
C15_Case ==
    /\ entry \in {"main", "auth_asgi", "legacy"}
    /\ decision \in {"accepted", "rejected"}
    /\ token # <<>>
    /\ scope.headers.x_auth_token = None
    /\ scope.headers.x_mcp_token = None
    /\ scope.query_string = <<>>

\* C15 (as claimed): the Authorization header authenticates exactly when it
\* is 'Bearer' (any case), one space, and the configured token; no other
\* Authorization value is accepted.
C15_BearerScheme ==
    C15_Case =>
        (decision = "accepted" <=>
            /\ WellFormedBearer(scope.headers.authorization)
            /\ BearerToken(scope.headers.authorization) = token)

\* C16 (as claimed): every rejection of an http connection by a wrapper is a
\* 401 response with the header WWW-Authenticate: Bearer and an error body.
C16_Challenge ==
    (/\ entry \in {"main", "auth_asgi", "legacy"}
     /\ scope.type = "http"
     /\ decision = "rejected")
    => /\ Len(sent) = 2
       /\ sent[1].type = "http.response.start"
       /\ sent[1].status = 401
       /\ sent[1].www_authenticate = S_Bearer
       /\ sent[2].type = "http.response.body"
       /\ sent[2].body # ""

\* The connections C17 is about: a websocket under the protected prefix whose
\* credential the wrapper does not accept.
C17_Case ==
    /\ entry \in {"main", "auth_asgi", "legacy"}
    /\ scope.type = "websocket"
    /\ Under(OrDefault(scope.path, Slash), prefix)
    /\ ~CfBypass
    /\ IF entry = "legacy"
       THEN HeaderGet(scope.headers, "authorization") # S_Bearer \o <<" ">> \o token
       ELSE CredentialBad
    /\ pc # "auth"

\* C17 (as claimed): such a connection is ended by one websocket.close message
\* with an authentication-failure code; no application is invoked and no HTTP
\* response message is sent on it.
C17_StreamClose ==
    C17_Case =>
        /\ calls = <<>>
        /\ Len(sent) = 1
        /\ sent[1].type = "websocket.close"
        /\ sent[1].code \in {1008, 4401, 4403}

(***************************************************************************)
(* The routing and configuration claims (C18-C20).                         *)
(***************************************************************************)
\* C18 (as claimed): with the backends built, an authenticated GET /mcp/health
\* is answered by the health responder; neither the request handler nor the
\* stream handler is invoked for it.
C18_HealthResponder ==
    (/\ entry = "main"
     /\ mcp_available
     /\ prefix = S_mcp
     /\ scope.type = "http"
     /\ scope.path = S_mcp \o S_health
     /\ decision = "accepted"
     /\ pc = "done")
    => /\ \E i \in 1..Len(calls) : calls[i].app = "health"
       /\ \A i \in 1..Len(calls) : calls[i].app \notin {"http", "sse"}

StubErrorBodies == {StubHttpBody, StubSseBody, StubMessagesBody}

\* The fallback application has answered an http connection the gate let
\* through.
C19_Answered ==
    /\ entry = "main"
    /\ ~mcp_available
    /\ scope.type = "http"
    /\ decision \in {"accepted", "outside"}
    /\ pc = "done"

\* /health and the stub's /mcp/health report ok=true and transport="none".
C19_Health ==
    (/\ C19_Answered
     /\ scope.method = "GET"
     /\ scope.path \in {S_health, S_mcp \o S_health})
    => /\ sent[1].status = 200
       /\ sent[2].body = StubHealthBody

C20_PrefixNormalized ==
    entry = "main" =>
        /\ prefix # <<>>
        /\ prefix[1] = "/"
        /\ prefix[Len(prefix)] # "/"

(***************************************************************************)
(* The frame, failure and dispatch claims (C21-C29).                       *)
(***************************************************************************)
\* What the handling of the first connection has produced.
Outcome == <<decision, local, sent, calls>>

\* C21: every step of either of two concurrent connections leaves the
\* configuration (prefix, token, bypass flag, cached probe) unchanged; a step
\* of one connection leaves the other connection untouched, and a finished
\* connection keeps its outcome whatever the other one does afterwards.
C21_ConfigFrozen ==
    [][/\ config' = config
       /\ pc = "done" => Outcome' = Outcome
       /\ peer.pc = "done" => peer' = peer
       /\ pc' # pc => peer' = peer
       /\ peer' # peer => <<scope, cur, pc, Outcome>>' = <<scope, cur, pc, Outcome>>]_vars

\* C21's case: both connections went through the probe-dependent root branch
\* and were dispatched with the path the cached probe asks for.
C21_Witness ==
    /\ pc = "done"
    /\ peer.pc = "done"
    /\ decision = "accepted"
    /\ HTTP_NEEDS_INNER_PREFIX
    /\ local = Slash
    /\ peer.local = Slash
    /\ calls[Len(calls)].scope.path = S_mcp
    /\ peer.calls[1].scope.path = S_mcp
    /\ peer.calls[1].scope.root_path = <<>>

C23_NoSecretInLog ==
    \A i \in 1..Len(log) :
        /\ Contains(log[i].text, log[i].shown)
        /\ (log[i].of = "token" /\ token # <<>>) => log[i].shown # token
        /\ (log[i].of = "candidate" /\ ~Falsy(Candidate)) => log[i].shown # Candidate

\* C29 (as claimed): the legacy wrapper, around a FastAPI application or any
\* other, ends every http connection under /mcp with a complete 401 and no
\* call of the wrapped application, or with exactly one call of it, and never
\* with an error of its own.
C29_LegacyHandles ==
    (/\ entry \in {"legacy", "legacy_fastapi"}
     /\ pc # "auth"
     /\ scope.type = "http"
     /\ StartsWith(scope.path, S_mcp)) =>
        /\ raised = NoError
        /\ \/ /\ sent = Response(401, None, "{\"detail\":\"Unauthorized\"}", FALSE)
              /\ calls = <<>>
           \/ /\ sent = <<>>
              /\ Len(calls) = 1

\* The invocations of the two transport handlers.
HandlerCalls == {i \in 1..Len(calls) : calls[i].app \in {"http", "sse"}}

C25_CfBypassOnlyWhenEnabled ==
    (/\ entry = "main"
     /\ Protected
     /\ decision # "pending") =>
        /\ decision = "cf_bypass" <=>
              (allow_cf_access /\ scope.headers.cf_access_jwt_assertion # None)
        /\ decision = "cf_bypass" =>
              (calls # <<>> /\ calls[1] = Invocation("inner", scope, FALSE))
        /\ env.ALLOW_CF_ACCESS = None => ~allow_cf_access
        /\ ~allow_cf_access =>
              /\ decision = IF Supplied(scope.headers, scope.query_string) # token
                            THEN "rejected"
                            ELSE "accepted"
              /\ decision = "rejected" => calls = <<>>

\* C25's case: ALLOW_CF_ACCESS is off, the connection carries the Cloudflare
\* header and a wrong token, and it was rejected.
C25_Witness ==
    /\ entry = "main"
    /\ Protected
    /\ ~allow_cf_access
    /\ scope.headers.cf_access_jwt_assertion # None
    /\ Supplied(scope.headers, scope.query_string) # token
    /\ decision = "rejected"
    /\ sent # <<>>
    /\ calls = <<>>

\* C27 (as claimed): whatever MCP_PREFIX is, an http or websocket connection
\* that reached MCPMux through the application passed the credential check
\* of MCPAuthASGI, or its Cloudflare bypass, before.
C27_MuxBehindGate ==
    (/\ entry = "main"
     /\ mcp_available
     /\ scope.type \in {"http", "websocket"}
     /\ local # None) =>
        decision \in {"accepted", "cf_bypass"}

\* The scope the caller handed to the layer that made invocation c: the
\* connection's own scope for the auth wrapper, the scope the mount built for
\* the mux (the connection's own scope when the mux is called directly).
Inbound(c) == IF c.app \in {"http", "sse"} THEN cur ELSE scope

ShellMeta == {";", "&", "|", "$", "<", ">", "(", ")"}

\* What the allow-list names: one of the fixed commands, or the revision
\* command followed by a message and nothing else.
AllowListed(cmd) ==
    \/ cmd \in {S_alembic_upgrade, S_alembic_downgrade, S_pytest}
    \/ /\ StartsWith(cmd, S_alembic_revision)
       /\ Len(cmd) > Len(S_alembic_revision)
       /\ \A i \in 1..Len(cmd) : cmd[i] \notin ShellMeta

\* C26 (as claimed): a request to /run_allowed either names an allow-listed
\* command, and exactly that command is run, or it is refused (400, or 401 and
\* 500 for the admin token) and nothing is run; nothing beyond an allow-listed
\* command reaches the shell.
C26_OnlyAllowListed ==
    (entry = "run_allowed" /\ pc = "done") =>
        \/ /\ status_code = 200
           /\ AllowListed(Strip(req.cmd))
           /\ executed = <<Strip(req.cmd)>>
        \/ /\ status_code \in {400, 401, 500}
           /\ executed = <<>>

\* The workspace and what lies below it.
InWorkspace(path) == path = WORKSPACE \/ StartsWith(path, WORKSPACE \o Slash)

\* The path a key of the files mapping resolves to.
Resolved(rel) ==
    Resolve(PathJoin(WORKSPACE, ReplaceChar(LStripChar(rel, "/"), "\\", "/")))

\* C30 (as claimed): every file /apply_files wrote lies in the workspace
\* tree, and a request with a key that resolves outside it (a sibling
\* directory whose name begins with the workspace's name included) ends with
\* 400 without that file being written.
C30_WorkspaceConfined ==
    (entry = "apply_files" /\ pc = "done") =>
        /\ \A i \in 1..Len(written) : InWorkspace(written[i])
        /\ \A i \in 1..Len(req.files) :
              (status_code \in {200, 400} /\ ~InWorkspace(Resolved(req.files[i]))) =>
                  /\ status_code = 400
                  /\ \A j \in 1..Len(written) : written[j] # Resolved(req.files[i])

====
